---- MODULE Spec2Model ----
(***************************************************************************)
(* A model of piranha's RuleStore (polyglot/piranha/src/models/            *)
(* rule_store.rs): the global rule worklist, the global tag environment,   *)
(* the compiled-query cache and the navigation of the rule graph.          *)
(*                                                                         *)
(* Tag names are sequences of characters so that the global-prefix filter  *)
(* of add_global_tags is a real starts_with.  Templates (query, replace,   *)
(* filter sub-queries) are sequences of tokens, a token being a literal    *)
(* or a hole @tag, so that instantiation really renders.                   *)
(***************************************************************************)
EXTENDS Integers, Sequences, FiniteSets, TLC

(***************************************************************************)
(* Bounds of the model.                                                    *)
(***************************************************************************)
\* Number of store operations performed after construction.
MaxOps == 2

\* Largest byte offset of a range handed to Edit::delete_range.
MaxByte == 2

\* Number of cleanup workflows of a Piranha, and number of passes of its
\* loop in which a cleanup workflow may still perform a cleanup.
MaxWorkflows == 2
MaxPasses == 2

\* Largest number of nodes of a source unit handed to the driver, and largest
\* number of rule firings followed from one rule of the worklist.
MaxText == 2
MaxFirings == 12

(***************************************************************************)
(* Generic helpers for maps (HashMap) and lists (Vec).                     *)
(***************************************************************************)
EmptyMap == [k \in {} |-> {}]

SeqToSet(s) == {s[i] : i \in 1..Len(s)}

IsPrefix(s, t) == Len(s) <= Len(t) /\ SubSeq(t, 1, Len(s)) = s

\* All maps from a subset of keys to vals.
PartialMaps(keys, vals) == UNION {[D -> vals] : D \in SUBSET keys}

\* All orders in which a HashMap may iterate over the set S.
Orders(S) ==
  {o \in [1..Cardinality(S) -> S] : \A i, j \in 1..Cardinality(S) : i # j => o[i] # o[j]}

(***************************************************************************)
(* Tags, values and substitution environments.                             *)
(***************************************************************************)
\* piranha_args.global_tag_prefix()
global_tag_prefix == <<"G", "_">>

\* T_arg shares its first character with the prefix without beginning with it.
T_flag == <<"f">>
T_arg == <<"G", "a">>
T_gx == <<"G", "_", "x">>

CaptureKeys == {T_arg, T_gx}
Values == {"v1", "v2"}

\* The capture maps a rule firing may hand to the store.
Envs == PartialMaps(CaptureKeys, Values)

\* The input substitutions a run may be started with.
InputSubstitutionChoices ==
  { (T_flag :> "v1") @@ (T_arg :> "v2"),
    (T_flag :> "v1") @@ (T_gx :> "v2") }

\* str::starts_with
starts_with(key, prefix) ==
  Len(prefix) <= Len(key) /\ SubSeq(key, 1, Len(prefix)) = prefix

\* HashMap::extend : entries of `more` are inserted into `base`, replacing
\* the value of a key already present.
extend(base, more) ==
  [k \in (DOMAIN base) \cup (DOMAIN more) |->
     IF k \in DOMAIN more THEN more[k] ELSE base[k]]

(***************************************************************************)
(* Rules and instantiation.                                                *)
(***************************************************************************)
Hole(t) == <<"@", t>>
Lit(s) == <<"lit", s>>

IsHole(tok) == tok[1] = "@"

\* The tag names of the holes left in a template.
HolesIn(template) == {template[i][2] : i \in {j \in 1..Len(template) : IsHole(template[j])}}

\* The string-valued fields of a rule: query, replacement, filter sub-queries.
HolesOf(rule) ==
  HolesIn(rule.query) \cup HolesIn(rule.replace)
    \cup UNION {HolesIn(rule.filters[i]) : i \in 1..Len(rule.filters)}

\* Rendering a template: every hole bound in env becomes its value.
render(template, env) ==
  [i \in 1..Len(template) |->
     IF IsHole(template[i]) /\ template[i][2] \in DOMAIN env
       THEN Lit(env[template[i][2]])
       ELSE template[i]]

\* Rule::try_instantiate : Ok(rule') with every string field rendered, or
\* Err when a hole of some field is not bound by env.
try_instantiate(rule, env) ==
  IF HolesOf(rule) \subseteq DOMAIN env
    THEN [ok |-> TRUE,
          rule |-> [rule EXCEPT !.query = render(rule.query, env),
                                !.replace = render(rule.replace, env),
                                !.filters = [i \in 1..Len(rule.filters) |->
                                               render(rule.filters[i], env)]]]
    ELSE [ok |-> FALSE, rule |-> rule]

\* Rule equality (Vec::contains): the name and the rendered strings.
RuleEq(r1, r2) ==
  /\ r1.name = r2.name
  /\ r1.query = r2.query
  /\ r1.replace = r2.replace
  /\ r1.filters = r2.filters

\* Vec::contains
contains(list, r) == \E i \in 1..Len(list) : RuleEq(list[i], r)

is_seed_rule(rule) == "seed" \in rule.groups

\* A dummy rule has no query and no replacement.
is_dummy(rule) == rule.query = <<>> /\ rule.replace = <<>>

(***************************************************************************)
(* The loaded configuration: rules (rules.toml entries are put in the seed *)
(* group by read_config_files, language rules are not) and edges.          *)
(***************************************************************************)
GLOBAL == "Global"
PARENT == "Parent"
Scopes == {PARENT, "Method", "Class", GLOBAL}

\* A directory of match-only rules and one language cleanup rule.
MatchOnlyRules ==
  { [name |-> "find_call", query |-> <<Lit("call"), Hole(T_flag)>>, replace |-> <<>>,
     filters |-> <<>>, groups |-> {"seed"}],
    [name |-> "delete_def", query |-> <<Lit("def"), Hole(T_arg)>>, replace |-> <<>>,
     filters |-> << <<Lit("use"), Hole(T_arg)>> >>, groups |-> {"seed"}],
    [name |-> "simplify", query |-> <<Lit("if_true")>>, replace |-> <<Lit("body")>>,
     filters |-> <<>>, groups |-> {}],
    [name |-> "d1", query |-> <<>>, replace |-> <<>>, filters |-> <<>>, groups |-> {}],
    [name |-> "d2", query |-> <<>>, replace |-> <<>>, filters |-> <<>>, groups |-> {}] }

\* A directory whose seed rules rewrite: a flag call becomes the literal
\* true of its condition, and a condition that is literally true its body.
RewriteRules ==
  { [name |-> "find_call", query |-> <<Lit("call"), Hole(T_flag)>>,
     replace |-> <<Lit("if_true")>>, filters |-> <<>>, groups |-> {"seed"}],
    [name |-> "simplify", query |-> <<Lit("if_true")>>, replace |-> <<Lit("body")>>,
     filters |-> <<>>, groups |-> {"seed"}],
    [name |-> "delete_def", query |-> <<Lit("def"), Hole(T_arg)>>, replace |-> <<>>,
     filters |-> << <<Lit("use"), Hole(T_arg)>> >>, groups |-> {"seed"}],
    [name |-> "d1", query |-> <<>>, replace |-> <<>>, filters |-> <<>>, groups |-> {}],
    [name |-> "d2", query |-> <<>>, replace |-> <<>>, filters |-> <<>>, groups |-> {}] }

Edge(from, scope, to) == [from |-> from, scope |-> scope, to |-> to]

\* The edge lists (in declared order) a run may be configured with.
EdgeChoices ==
  { \* a dummy relay, a direct edge and a cycle between two rules that are not dummies
    << Edge("find_call", PARENT, "d1"),
       Edge("find_call", "Method", "simplify"),
       Edge("d1", GLOBAL, "delete_def"),
       Edge("d1", "Method", "simplify"),
       Edge("delete_def", GLOBAL, "find_call") >>,
    \* a chain of two dummies
    << Edge("find_call", "Class", "d1"),
       Edge("find_call", PARENT, "simplify"),
       Edge("d1", "Method", "d2"),
       Edge("d1", PARENT, "delete_def"),
       Edge("d2", GLOBAL, "delete_def"),
       Edge("d2", PARENT, "simplify") >>,
    \* a cycle through dummies
    << Edge("find_call", PARENT, "simplify"),
       Edge("find_call", PARENT, "d1"),
       Edge("d1", GLOBAL, "delete_def"),
       Edge("d1", PARENT, "d2"),
       Edge("d2", PARENT, "d1") >> }


(***************************************************************************)
(* State of a run.                                                         *)
(***************************************************************************)
VARIABLES
  pc,                   \* "start" before RuleStore::new, "running" after it
  edges,                \* the declared edges behind rule_graph
  input_substitutions,  \* piranha_args.input_substitutions()
  global_rules,         \* Vec<Rule>: the global worklist
  global_tags,          \* HashMap<String, String>
  rule_query_cache,     \* HashMap<String, Query>
  compilations,         \* query string -> number of create_query calls for it
  last,                 \* the last operation, its arguments and what it returned
  nops,                 \* number of operations performed since construction
  apply,                \* the position and locals of Piranha::apply (thinking.rs)
  loaded_rules,         \* the rules read_config_files returned
  driver                \* the driver's position, its source unit and its summary

vars == <<pc, edges, input_substitutions, global_rules, global_tags,
          rule_query_cache, compilations, last, nops, apply, loaded_rules, driver>>

\* The rules of the configuration directory and of the language.
LoadedRules == loaded_rules

RuleNames == {r.name : r \in LoadedRules}

\* rules_by_name: all the input rules stored by name
MatchOnlyRulesByName ==
  [n \in {r.name : r \in MatchOnlyRules} |-> CHOOSE r \in MatchOnlyRules : r.name = n]

RewriteRulesByName ==
  [n \in {r.name : r \in RewriteRules} |-> CHOOSE r \in RewriteRules : r.name = n]

rules_by_name ==
  IF LoadedRules = MatchOnlyRules THEN MatchOnlyRulesByName ELSE RewriteRulesByName

\* RuleGraph::get_neighbors : the (scope, to) pairs of the edges leaving
\* rule_name, in declared order.
get_neighbors(rule_name) ==
  LET leaves(e) == e.from = rule_name
  IN SelectSeq(edges, leaves)

(***************************************************************************)
(* RuleStore operations, as functions of the fields they read.             *)
(***************************************************************************)
\* default_substitutions: the input substitutions extended by the global tags
default_substitutions ==
  extend(input_substitutions, global_tags)

\* add_to_global_rules without the contains test
add_to_global_rules_no_dedup(rules, rule, tag_captures) ==
  LET r == try_instantiate(rule, tag_captures)
  IN IF r.ok THEN Append(rules, r.rule) ELSE rules

\* add_to_global_rules pushing at the front of the worklist
add_to_global_rules_push_front(rules, rule, tag_captures) ==
  LET r == try_instantiate(rule, tag_captures)
  IN IF r.ok /\ ~contains(rules, r.rule) THEN <<r.rule>> \o rules ELSE rules

\* add_to_global_rules looking for a rule of the same name in the worklist
add_to_global_rules_dedup_by_name(rules, rule, tag_captures) ==
  LET r == try_instantiate(rule, tag_captures)
  IN IF r.ok /\ ~(\E i \in 1..Len(rules) : rules[i].name = r.rule.name)
       THEN Append(rules, r.rule)
       ELSE rules

\* add_to_global_rules pushing the rule as it is when it does not instantiate
add_to_global_rules_push_unbound(rules, rule, tag_captures) ==
  LET r == try_instantiate(rule, tag_captures)
  IN IF ~contains(rules, r.rule) THEN Append(rules, r.rule) ELSE rules

\* add_to_global_rules: the worklist after the call
add_to_global_rules(rules, rule, tag_captures) ==
  LET r == try_instantiate(rule, tag_captures)
  IN IF r.ok
       THEN IF ~contains(rules, r.rule) THEN Append(rules, r.rule) ELSE rules
       ELSE rules

\* add_global_tags without the prefix filter
add_global_tags_no_filter(tags, new_entries) ==
  extend(tags, new_entries)

\* add_global_tags: global_tags after the call
add_global_tags(tags, new_entries) ==
  LET global_substitutions ==
        [k \in {e \in DOMAIN new_entries : starts_with(e, global_tag_prefix)} |->
           new_entries[k]]
  IN extend(tags, global_substitutions)

\* PiranhaLanguage::create_query : a freshly compiled query object
create_query(query_str, id) == [source |-> query_str, id |-> id]

TotalCompilations ==
  LET RECURSIVE sum(_)
      sum(S) == IF S = {} THEN 0
                ELSE LET k == CHOOSE x \in S : TRUE
                     IN compilations[k] + sum(S \ {k})
  IN sum(DOMAIN compilations)

(***************************************************************************)
(* get_next: the rules to apply next, grouped by scope.                    *)
(***************************************************************************)
\* MapOfVec::collect : push value on the list stored under key
collect(map, key, value) ==
  IF key \in DOMAIN map
    THEN [map EXCEPT ![key] = Append(@, value)]
    ELSE map @@ (key :> <<value>>)

\* Rule::instantiate : as try_instantiate, for callers that take the rule
\* itself; a failed instantiation (ok = FALSE) ends the caller.
instantiate(rule, env) == try_instantiate(rule, env)

\* a relayed rule filed under the scope of the edge into the dummy
relay_scope_of_caller(scope, next_next_rules_scope) == scope

\* The scope key under which a rule reached through a dummy is filed.
relay_scope(scope, next_next_rules_scope) == next_next_rules_scope

\* the result without the empty entries
with_default_scopes_omitted(next_rules) == next_rules

\* Add empty entry, in case no next rule was found for a particular scope.
with_default_scopes(next_rules) ==
  [s \in (DOMAIN next_rules) \cup {PARENT, GLOBAL} |->
     IF s \in DOMAIN next_rules THEN next_rules[s] ELSE <<>>]

\* the inner loop of the dummy branch walking each list from its end
RECURSIVE collect_all_reversed(_, _, _, _, _)
collect_all_reversed(next_rules, scope, relayed, todo, tag_matches) ==
  IF todo = {} THEN [outcome |-> "returned", map |-> next_rules]
  ELSE LET s == CHOOSE x \in todo : TRUE
           insts == [j \in 1..Len(relayed[s]) |-> instantiate(relayed[s][j], tag_matches)]
           key == relay_scope(scope, s)
           RECURSIVE push(_, _)
           push(map, j) ==
             IF j < 1 THEN map ELSE push(collect(map, key, insts[j].rule), j - 1)
       IN IF \E j \in 1..Len(insts) : ~insts[j].ok
            THEN [outcome |-> "panic", map |-> EmptyMap]
            ELSE collect_all_reversed(push(next_rules, Len(insts)), scope, relayed,
                                      todo \ {s}, tag_matches)

\* The inner loops of the dummy branch: every rule of every scope of the
\* dummy's own result is instantiated again and collected.
RECURSIVE collect_all(_, _, _, _, _)
collect_all(next_rules, scope, relayed, todo, tag_matches) ==
  IF todo = {} THEN [outcome |-> "returned", map |-> next_rules]
  ELSE LET s == CHOOSE x \in todo : TRUE
           insts == [j \in 1..Len(relayed[s]) |-> instantiate(relayed[s][j], tag_matches)]
           key == relay_scope(scope, s)
           RECURSIVE push(_, _)
           push(map, j) ==
             IF j > Len(insts) THEN map ELSE push(collect(map, key, insts[j].rule), j + 1)
       IN IF \E j \in 1..Len(insts) : ~insts[j].ok
            THEN [outcome |-> "panic", map |-> EmptyMap]
            ELSE collect_all(push(next_rules, 1), scope, relayed, todo \ {s}, tag_matches)

\* get_next with the names of the dummies whose expansion is in progress:
\* re-entering one of them repeats the same call for ever (the recursion
\* has no visited set), which ends in a stack overflow.
RECURSIVE get_next_in(_, _, _)
get_next_in(rule_name, tag_matches, active) ==
  LET nbrs == get_neighbors(rule_name)
      RECURSIVE visit(_, _)
      visit(i, acc) ==
        IF i > Len(nbrs) \/ acc.outcome # "returned" THEN acc
        ELSE LET scope == nbrs[i].scope
                 to_rule_name == rules_by_name[nbrs[i].to]
             IN IF is_dummy(to_rule_name)
                  THEN IF to_rule_name.name \in active
                         THEN [outcome |-> "overflow", map |-> EmptyMap]
                         ELSE LET sub == get_next_in(to_rule_name.name, tag_matches,
                                                     active \cup {to_rule_name.name})
                              IN IF sub.outcome # "returned"
                                   THEN sub
                                   ELSE visit(i + 1,
                                              collect_all(acc.map, scope, sub.map,
                                                          DOMAIN sub.map, tag_matches))
                  ELSE LET r == instantiate(to_rule_name, tag_matches)
                       IN IF r.ok
                            THEN visit(i + 1, [acc EXCEPT !.map = collect(@, scope, r.rule)])
                            ELSE [outcome |-> "panic", map |-> EmptyMap]
      body == visit(1, [outcome |-> "returned", map |-> EmptyMap])
  IN IF body.outcome = "returned"
       THEN [body EXCEPT !.map = with_default_scopes(@)]
       ELSE body

get_next(rule_name, tag_matches) ==
  get_next_in(rule_name, tag_matches, {rule_name})

(***************************************************************************)
(* RuleStore::new and RuleStore::query.                                    *)
(***************************************************************************)
\* new adding every loaded rule, seed or not
new_without_seed_test(order) ==
  LET RECURSIVE loop(_, _)
      loop(i, rules) ==
        IF i > Len(order) THEN rules
        ELSE loop(i + 1, add_to_global_rules(rules, rules_by_name[order[i]],
                                             input_substitutions))
  IN [outcome |-> "returned", global_rules |-> loop(1, <<>>)]

\* new keeping a seed rule that does not instantiate, as it was loaded
new_keeping_unbound_seeds(order) ==
  LET RECURSIVE loop(_, _)
      loop(i, rules) ==
        IF i > Len(order) THEN rules
        ELSE LET rule == rules_by_name[order[i]]
             IN loop(i + 1,
                     IF is_seed_rule(rule)
                       THEN IF try_instantiate(rule, input_substitutions).ok
                              THEN add_to_global_rules(rules, rule, input_substitutions)
                              ELSE Append(rules, rule)
                       ELSE rules)
  IN [outcome |-> "returned", global_rules |-> loop(1, <<>>)]

\* new: the loop over rules_by_name (a HashMap, visited in the order
\* `order`) adds every seed rule instantiated under the input substitutions;
\* the store is returned whatever add_to_global_rules did.
new(order) ==
  LET RECURSIVE loop(_, _)
      loop(i, rules) ==
        IF i > Len(order) THEN rules
        ELSE LET rule == rules_by_name[order[i]]
             IN loop(i + 1,
                     IF is_seed_rule(rule)
                       THEN add_to_global_rules(rules, rule, input_substitutions)
                       ELSE rules)
  IN [outcome |-> "returned", global_rules |-> loop(1, <<>>)]

\* query compiling on every call and replacing the cached entry
query_always_compile(query_str) ==
  LET q == create_query(query_str, TotalCompilations + 1)
  IN [cache |-> extend(rule_query_cache, (query_str :> q)),
      compilations |-> extend(compilations,
                              (query_str :> IF query_str \in DOMAIN compilations
                                              THEN compilations[query_str] + 1 ELSE 1)),
      query |-> q]

\* query: entry(query_str).or_insert_with(create_query)
query(query_str) ==
  IF query_str \in DOMAIN rule_query_cache
    THEN [cache |-> rule_query_cache,
          compilations |-> compilations,
          query |-> rule_query_cache[query_str]]
    ELSE LET q == create_query(query_str, TotalCompilations + 1)
         IN [cache |-> rule_query_cache @@ (query_str :> q),
             compilations |-> extend(compilations,
                                     (query_str :> IF query_str \in DOMAIN compilations
                                                     THEN compilations[query_str] + 1
                                                     ELSE 1)),
             query |-> q]

(***************************************************************************)
(* The end of the driver's PROPAGATE for a fired rule: the rules get_next  *)
(* files under Global go to the worklist, the captures to the global tags. *)
(***************************************************************************)
propagate_globals(rule_name, captures) ==
  LET next == get_next(rule_name, captures)
      RECURSIVE loop(_, _)
      loop(i, rules) ==
        IF i > Len(next.map[GLOBAL]) THEN rules
        ELSE loop(i + 1, add_to_global_rules(rules, next.map[GLOBAL][i], captures))
  IN IF next.outcome = "returned"
       THEN [outcome |-> "returned",
             global_rules |-> loop(1, global_rules),
             global_tags |-> add_global_tags(global_tags, captures)]
       ELSE [outcome |-> next.outcome,
             global_rules |-> global_rules,
             global_tags |-> global_tags]

(***************************************************************************)
(* Edits (models/edit.rs).                                                 *)
(***************************************************************************)
\* tree_sitter::Range over a one-line text: the column is the byte offset.
Point(byte) == [row |-> 0, column |-> byte]

Ranges ==
  {[start_byte |-> b, end_byte |-> e, start_point |-> Point(b), end_point |-> Point(e)] :
     <<b, e>> \in {x \in (0..MaxByte) \X (0..MaxByte) : x[1] <= x[2]}}

\* Match::new
Match_new(range, matches) == [range |-> range, matches |-> matches]

\* delete_range with the replacement and the rule name exchanged
delete_range_fields_exchanged(replacement_range) ==
  [p_match |-> Match_new(replacement_range, EmptyMap),
   replacement_string |-> "Delete Range",
   matched_rule |-> ""]

\* Edit::delete_range
delete_range(replacement_range) ==
  [p_match |-> Match_new(replacement_range, EmptyMap),
   replacement_string |-> "",
   matched_rule |-> "Delete Range"]

(***************************************************************************)
(* Inputs of the operations.                                               *)
(***************************************************************************)
\* The query strings the engine asks for: the queries of instantiated rules.
QueryStrings ==
  {try_instantiate(r, e).rule.query :
     <<r, e>> \in {x \in MatchOnlyRules \X (Envs \cup InputSubstitutionChoices) :
                     try_instantiate(x[1], x[2]).ok /\ ~is_dummy(x[1])}}

\* The rules that can fire: a dummy rule has no query and matches nothing.
FiringRuleNames == {n \in RuleNames : ~is_dummy(rules_by_name[n])}

\* The rules handed to add_to_global_rules: loaded rules, and the rules the
\* last get_next filed under Global.
RulesToAdd ==
  LoadedRules \cup
    (IF last.op = "get_next" /\ last.outcome = "returned"
       THEN SeqToSet(last.next_rules[GLOBAL]) ELSE {})

(***************************************************************************)
(* The state machine.                                                      *)
(***************************************************************************)
Init ==
  /\ pc = "start"
  /\ edges \in EdgeChoices
  /\ input_substitutions \in InputSubstitutionChoices
  /\ global_rules = <<>>
  /\ global_tags = EmptyMap
  /\ rule_query_cache = EmptyMap
  /\ compilations = EmptyMap
  /\ last = [op |-> "default"]
  /\ nops = 0
  /\ apply = [pc |-> "idle"]
  /\ loaded_rules = MatchOnlyRules
  /\ driver = [pc |-> "idle"]

New ==
  /\ pc = "start"
  /\ \E order \in Orders(RuleNames) :
       LET r == new(order)
       IN /\ global_rules' = r.global_rules
          /\ last' = [op |-> "new", outcome |-> r.outcome]
  /\ pc' = "running"
  /\ UNCHANGED <<apply, loaded_rules, driver, edges, input_substitutions, global_tags, rule_query_cache,
                 compilations, nops>>

AddToGlobalRules ==
  /\ pc = "running" /\ nops < MaxOps
  /\ \E rule \in RulesToAdd, tag_captures \in Envs \cup {default_substitutions} :
       /\ global_rules' = add_to_global_rules(global_rules, rule, tag_captures)
       /\ last' = [op |-> "add_to_global_rules", rule |-> rule,
                   tag_captures |-> tag_captures, outcome |-> "returned"]
  /\ nops' = nops + 1
  /\ UNCHANGED <<apply, loaded_rules, driver, pc, edges, input_substitutions, global_tags, rule_query_cache,
                 compilations>>

AddGlobalTags ==
  /\ pc = "running" /\ nops < MaxOps
  /\ \E new_entries \in Envs :
       /\ global_tags' = add_global_tags(global_tags, new_entries)
       /\ last' = [op |-> "add_global_tags", new_entries |-> new_entries]
  /\ nops' = nops + 1
  /\ UNCHANGED <<apply, loaded_rules, driver, pc, edges, input_substitutions, global_rules, rule_query_cache,
                 compilations>>

GetNext ==
  /\ pc = "running" /\ nops < MaxOps
  /\ \E rule_name \in RuleNames, tag_matches \in Envs :
       LET r == get_next(rule_name, tag_matches)
       IN last' = [op |-> "get_next", rule_name |-> rule_name,
                   tag_matches |-> tag_matches,
                   outcome |-> r.outcome, next_rules |-> r.map]
  /\ nops' = nops + 1
  /\ UNCHANGED <<apply, loaded_rules, driver, pc, edges, input_substitutions, global_rules, global_tags,
                 rule_query_cache, compilations>>

\* A rule fires with the given captures; `repeated` tells that the firing
\* before it was of the same rule with the same captures.
Propagate ==
  /\ pc = "running" /\ nops < MaxOps
  /\ \E rule_name \in FiringRuleNames, captures \in Envs :
       LET r == propagate_globals(rule_name, captures)
       IN /\ global_rules' = r.global_rules
          /\ global_tags' = r.global_tags
          /\ last' = [op |-> "propagate", rule_name |-> rule_name,
                      captures |-> captures, outcome |-> r.outcome,
                      repeated |-> /\ last.op = "propagate"
                                   /\ last.outcome = "returned"
                                   /\ last.rule_name = rule_name
                                   /\ last.captures = captures]
  /\ nops' = nops + 1
  /\ UNCHANGED <<apply, loaded_rules, driver, pc, edges, input_substitutions, rule_query_cache, compilations>>

Query ==
  /\ pc = "running" /\ nops < MaxOps
  /\ \E query_str \in QueryStrings :
       LET r == query(query_str)
       IN /\ rule_query_cache' = r.cache
          /\ compilations' = r.compilations
          /\ last' = [op |-> "query", query_str |-> query_str, result |-> r.query]
  /\ nops' = nops + 1
  /\ UNCHANGED <<apply, loaded_rules, driver, pc, edges, input_substitutions, global_rules, global_tags>>

DefaultSubstitutions ==
  /\ pc = "running" /\ nops < MaxOps
  /\ last' = [op |-> "default_substitutions", result |-> default_substitutions]
  /\ nops' = nops + 1
  /\ UNCHANGED <<apply, loaded_rules, driver, pc, edges, input_substitutions, global_rules, global_tags,
                 rule_query_cache, compilations>>

DeleteRange ==
  /\ pc = "running" /\ nops < MaxOps
  /\ \E replacement_range \in Ranges :
       last' = [op |-> "delete_range", replacement_range |-> replacement_range,
                edit |-> delete_range(replacement_range)]
  /\ nops' = nops + 1
  /\ UNCHANGED <<apply, loaded_rules, driver, pc, edges, input_substitutions, global_rules, global_tags,
                 rule_query_cache, compilations>>

Next ==
  \/ New
  \/ AddToGlobalRules
  \/ AddGlobalTags
  \/ GetNext
  \/ Query
  \/ DefaultSubstitutions

Spec == Init /\ [][Next]_vars

\* The firings of rules on a store: the edit and the propagation of each.
FiringNext ==
  \/ New
  \/ Propagate
  \/ DeleteRange

FiringSpec == Init /\ [][FiringNext]_vars

(***************************************************************************)
(* Piranha::apply (thinking.rs): the seed workflow, then the cleanup       *)
(* workflows, pass after pass, until a pass performs no cleanup.           *)
(* A summary is a list of the edits made; an empty summary is what         *)
(* `if cleanup_output_summary` takes for false.                            *)
(***************************************************************************)
storeVars == <<pc, edges, input_substitutions, global_rules, global_tags,
               rule_query_cache, compilations, last, nops, loaded_rules, driver>>

\* What a workflow may return: nothing done, or the edits it made.
Summaries(who) == {<<>>, <<who>>}

\* PiranhaOutputSummary::merge
merge(piranha_output_summary, cleanup_output_summary) ==
  piranha_output_summary \o cleanup_output_summary

\* the flag taking the value of the last workflow's result
cleanup_performed_overwritten(cleanup_performed, cleanup_output_summary) ==
  cleanup_output_summary # <<>>

\* cleanup_performed after the body of the for loop for one workflow
cleanup_performed_after(cleanup_performed, cleanup_output_summary) ==
  IF cleanup_output_summary # <<>> THEN TRUE ELSE cleanup_performed

ApplyInit ==
  /\ pc = "start"
  /\ edges = <<>>
  /\ input_substitutions = EmptyMap
  /\ global_rules = <<>>
  /\ global_tags = EmptyMap
  /\ rule_query_cache = EmptyMap
  /\ compilations = EmptyMap
  /\ last = [op |-> "default"]
  /\ nops = 0
  /\ loaded_rules = MatchOnlyRules
  /\ driver = [pc |-> "idle"]
  /\ \E n \in 0..MaxWorkflows :
       apply = [pc |-> "seed", cleanup_workflows |-> n, i |-> 1,
                cleanup_performed |-> FALSE, piranha_output_summary |-> <<>>,
                pass |-> 0, performed |-> {}]

\* let piranha_output_summary = seed_workflow.apply(..)
SeedWorkflowApply ==
  /\ apply.pc = "seed"
  /\ \E out \in Summaries("seed") :
       apply' = [apply EXCEPT !.pc = "loop", !.piranha_output_summary = out]
  /\ UNCHANGED storeVars

\* loop { let mut cleanup_performed = false; for ... : the start of a pass.
\* `pass` counts the passes and `performed` collects the workflows that
\* performed a cleanup in the pass.
LoopPass ==
  /\ apply.pc = "loop"
  /\ apply' = [apply EXCEPT !.pc = "for", !.i = 1, !.cleanup_performed = FALSE,
                            !.pass = @ + 1, !.performed = {}]
  /\ UNCHANGED storeVars

\* The body of the for loop for the workflow at index i.
CleanupWorkflowApply ==
  /\ apply.pc = "for"
  /\ apply.i <= apply.cleanup_workflows
  /\ \E cleanup_output_summary \in Summaries(apply.i) :
       /\ cleanup_output_summary # <<>> => apply.pass <= MaxPasses
       /\ apply' = [apply EXCEPT
            !.i = @ + 1,
            !.piranha_output_summary = merge(@, cleanup_output_summary),
            !.cleanup_performed = cleanup_performed_after(@, cleanup_output_summary),
            !.performed = IF cleanup_output_summary # <<>> THEN @ \cup {apply.i} ELSE @]
  /\ UNCHANGED storeVars

\* if !cleanup_performed { break; } : after the last workflow of the pass.
BreakOrRepeat ==
  /\ apply.pc = "for"
  /\ apply.i > apply.cleanup_workflows
  /\ apply' = [apply EXCEPT !.pc = IF ~apply.cleanup_performed THEN "done" ELSE "loop"]
  /\ UNCHANGED storeVars

ApplyNext ==
  \/ SeedWorkflowApply
  \/ LoopPass
  \/ CleanupWorkflowApply
  \/ BreakOrRepeat

ApplySpec == ApplyInit /\ [][ApplyNext]_vars

(***************************************************************************)
(* The driver (execute_piranha): GLOBAL_SCAN passes over the worklist      *)
(* until a pass applies no edit, with PROPAGATE after every match.         *)
(* A source unit is a flat list of nodes, a node the list of its words; a  *)
(* query with every hole rendered matches the nodes that spell it.  Every  *)
(* scope of a node resolves to the whole unit.                             *)
(***************************************************************************)
Nodes == { <<"call", "v1">>, <<"if_true">>, <<"def", "v2">>, <<"use", "v2">> }

Texts == UNION {[1..n -> Nodes] : n \in 1..MaxText}

\* The edge lists of the runs of the driver: the ones above, and one in
\* which no rule that rewrites can be reached from a seed rule.
DriverEdgeChoices ==
  EdgeChoices \cup { << Edge("find_call", GLOBAL, "delete_def") >> }

\* The words a rendered template spells.
plain(template) == [i \in 1..Len(template) |-> template[i][2]]

\* The captures of a match: the argument of the node under both capture tags.
captures_of(node) ==
  IF Len(node) >= 2 THEN [k \in CaptureKeys |-> node[2]] ELSE EmptyMap

\* match_rule: instantiate; the nodes the query spells; a filter is a
\* not-contains sub-query over the unit; survivors in document order.
match_rule(rule, text, env) ==
  LET inst == try_instantiate(rule, env)
      survives == \A f \in 1..Len(inst.rule.filters) :
                    \A j \in 1..Len(text) : text[j] # plain(inst.rule.filters[f])
      RECURSIVE from(_)
      from(i) ==
        IF i > Len(text) THEN <<>>
        ELSE (IF text[i] = plain(inst.rule.query) /\ survives
                THEN << [index |-> i, captures |-> captures_of(text[i])] >>
                ELSE <<>>) \o from(i + 1)
  IN IF ~inst.ok \/ is_dummy(rule) THEN <<>> ELSE from(1)

\* every rule taken for a rewriting rule
is_match_only_never(rule) == FALSE

\* An empty replacement marks a match-only rule.
is_match_only(rule) == rule.replace = <<>>

\* apply_edit: the replacement spliced in at the range of the match.
apply_edit(text, m, replacement) == [text EXCEPT ![m.index] = plain(replacement)]

\* the scan ended after its first pass
repeat_scan_never(edits_this_pass) == FALSE

\* if any edit applied this pass, repeat GLOBAL_SCAN; else done(file)
repeat_scan(edits_this_pass) == edits_this_pass > 0

\* The environment a rule is instantiated against at a site.
env_of(S) == extend(S.substitutions, extend(input_substitutions, S.global_tags))

\* The rules filed under a scope, none when the scope has no entry.
under(next_rules, scope) ==
  IF scope \in DOMAIN next_rules THEN next_rules[scope] ELSE <<>>

\* for r in next[Global]: store.add_to_global_rules(r, captures)
RECURSIVE add_all_to_global_rules(_, _, _, _)
add_all_to_global_rules(rules, next_rules, captures, i) ==
  IF i > Len(next_rules) THEN rules
  ELSE add_all_to_global_rules(add_to_global_rules(rules, next_rules[i], captures),
                               next_rules, captures, i + 1)

\* The end of PROPAGATE: the worklist and the global tags.
propagate_to_store(S, next_rules, captures) ==
  IF S.outcome # "ok" THEN S
  ELSE [S EXCEPT
         !.global_rules = add_all_to_global_rules(@, under(next_rules, GLOBAL), captures, 1),
         !.global_tags = add_global_tags(@, captures)]

\* The edit of a rewriting rule at its match m: the text, the summary and
\* the substitutions of the unit after it.
rewrite(S, rule, m, replacement_string) ==
  LET edit == [p_match |-> m, replacement_string |-> replacement_string,
               matched_rule |-> rule.name]
  IN [S EXCEPT !.text = apply_edit(@, edit.p_match, edit.replacement_string),
               !.edits = Append(@, edit.matched_rule),
               !.substitutions = extend(@, m.captures),
               !.fuel = @ - 1]

\* A match of a match-only rule: recorded, the text left alone.
record_match(S, rule, m) ==
  [S EXCEPT !.matches = @ \cup {<<rule.name, m.index>>},
            !.substitutions = extend(@, m.captures)]

RECURSIVE propagate(_, _, _)
RECURSIVE local_scopes(_, _, _, _)
RECURSIVE local_fixpoint(_, _)
RECURSIVE apply_rules(_, _, _)
RECURSIVE apply_rule(_, _)
RECURSIVE propagate_matches(_, _, _, _)

\* PROPAGATE after get_next: the local scopes in order, then the store.
propagate_next(S, next, captures) ==
  IF next.outcome # "returned" THEN [S EXCEPT !.outcome = next.outcome]
  ELSE propagate_to_store(local_scopes(S, next.map, <<PARENT, "Method", "Class">>, 1),
                          next.map, captures)

\* PROPAGATE(fired_rule, captures, anchor_range) on the run state S
propagate(S, rule_name, captures) ==
  IF S.outcome # "ok" THEN S
  ELSE IF S.fuel = 0 THEN [S EXCEPT !.outcome = "cut"]
  ELSE propagate_next([S EXCEPT !.fuel = @ - 1], get_next(rule_name, captures), captures)

\* for scope in [Parent, Method, Class]
local_scopes(S, next_rules, scopes, k) ==
  IF k > Len(scopes) THEN S
  ELSE local_scopes(local_fixpoint(S, under(next_rules, scopes[k])),
                    next_rules, scopes, k + 1)

\* A sweep over next[scope] is repeated when it applied an edit.
repeat_local(S, swept, rules) ==
  IF swept.outcome = "ok" /\ Len(swept.edits) > Len(S.edits)
    THEN local_fixpoint(swept, rules)
    ELSE swept

\* fixpoint over next[scope]
local_fixpoint(S, rules) ==
  IF rules = <<>> \/ S.outcome # "ok" THEN S
  ELSE repeat_local(S, apply_rules(S, rules, 1), rules)

\* for r in next[scope]
apply_rules(S, rules, i) ==
  IF i > Len(rules) THEN S
  ELSE apply_rules(apply_rule(S, rules[i]), rules, i + 1)

\* The matches ms of a rule at the unit: a match-only rule records them, a
\* rewriting rule applies the first and is matched again on the new text;
\* the rule graph is followed from every match.
apply_matches(S, rule, ms) ==
  IF ms = <<>> THEN S
  ELSE IF is_match_only(rule) THEN propagate_matches(S, rule, ms, 1)
  ELSE IF S.fuel = 0 THEN [S EXCEPT !.outcome = "cut"]
  ELSE apply_rule(propagate(rewrite(S, rule, ms[1],
                                    try_instantiate(rule, env_of(S)).rule.replace),
                            rule.name, ms[1].captures),
                  rule)

\* for each match m in match_rule(rule, unit, region)
apply_rule(S, rule) ==
  IF S.outcome # "ok" THEN S
  ELSE apply_matches(S, rule, match_rule(rule, S.text, env_of(S)))

\* The matches of a match-only rule, one after the other.
propagate_matches(S, rule, ms, k) ==
  IF k > Len(ms) THEN S
  ELSE propagate_matches(propagate(record_match(S, rule, ms[k]), rule.name, ms[k].captures),
                         rule, ms, k + 1)

DriverInit ==
  /\ pc = "start"
  /\ edges \in DriverEdgeChoices
  /\ input_substitutions \in InputSubstitutionChoices
  /\ loaded_rules \in {MatchOnlyRules, RewriteRules}
  /\ global_rules = <<>>
  /\ global_tags = EmptyMap
  /\ rule_query_cache = EmptyMap
  /\ compilations = EmptyMap
  /\ last = [op |-> "default"]
  /\ nops = 0
  /\ apply = [pc |-> "idle"]
  /\ \E text \in Texts :
       driver = [pc |-> "pass", run |-> 1, input |-> text, text |-> text,
                 i |-> 1, n |-> 0, edits |-> <<>>, edits_before_pass |-> 0,
                 matches |-> {}, substitutions |-> EmptyMap, first_run_edits |-> 0,
                 outcome |-> "ok"]

\* GLOBAL_SCAN: a pass starts over the rules the worklist holds now.
StartPass ==
  /\ pc = "running"
  /\ driver.pc = "pass"
  /\ driver' = [driver EXCEPT !.pc = "scan", !.i = 1, !.n = Len(global_rules),
                              !.edits_before_pass = Len(driver.edits)]
  /\ UNCHANGED <<pc, edges, input_substitutions, global_rules, global_tags,
                 rule_query_cache, compilations, last, nops, apply, loaded_rules>>

\* for each rule g in store.global_rules: its matches, edits and propagation
ScanRule ==
  /\ driver.pc = "scan"
  /\ driver.i <= driver.n
  /\ LET S == [text |-> driver.text, edits |-> driver.edits, matches |-> driver.matches,
               substitutions |-> driver.substitutions,
               global_rules |-> global_rules, global_tags |-> global_tags,
               fuel |-> MaxFirings, outcome |-> "ok"]
         R == apply_rule(S, global_rules[driver.i])
     IN IF R.outcome = "ok"
          THEN /\ driver' = [driver EXCEPT !.i = @ + 1, !.text = R.text, !.edits = R.edits,
                                           !.matches = R.matches,
                                           !.substitutions = R.substitutions]
               /\ global_rules' = R.global_rules
               /\ global_tags' = R.global_tags
          ELSE /\ driver' = [driver EXCEPT !.pc = "stopped", !.outcome = R.outcome]
               /\ UNCHANGED <<global_rules, global_tags>>
  /\ UNCHANGED <<pc, edges, input_substitutions, rule_query_cache, compilations,
                 last, nops, apply, loaded_rules>>

\* if any edit applied this pass, repeat GLOBAL_SCAN; else done(file).
EndPass ==
  /\ driver.pc = "scan"
  /\ driver.i > driver.n
  /\ driver' = [driver EXCEPT
       !.pc = IF repeat_scan(Len(driver.edits) - driver.edits_before_pass)
                THEN "pass" ELSE "done"]
  /\ UNCHANGED <<pc, edges, input_substitutions, global_rules, global_tags,
                 rule_query_cache, compilations, last, nops, apply, loaded_rules>>

\* The driver is started again, with the same rules, edges and
\* substitutions and a new store, on the text the first run left.
Rerun ==
  /\ driver.pc = "done"
  /\ driver.run = 1
  /\ \E order \in Orders(RuleNames) : global_rules' = new(order).global_rules
  /\ global_tags' = EmptyMap
  /\ rule_query_cache' = EmptyMap
  /\ compilations' = EmptyMap
  /\ driver' = [driver EXCEPT !.pc = "pass", !.run = 2, !.input = driver.text,
                              !.i = 1, !.n = 0, !.edits = <<>>, !.edits_before_pass = 0,
                              !.matches = {}, !.substitutions = EmptyMap,
                              !.first_run_edits = Len(driver.edits)]
  /\ UNCHANGED <<pc, edges, input_substitutions, last, nops, apply, loaded_rules>>

DriverNext ==
  \/ New
  \/ StartPass
  \/ ScanRule
  \/ EndPass
  \/ Rerun

DriverSpec == DriverInit /\ [][DriverNext]_vars

(***************************************************************************)
(* Properties.                                                             *)
(***************************************************************************)
NoDuplicates(list) ==
  \A i, j \in 1..Len(list) : i # j => ~RuleEq(list[i], list[j])

\* The instantiation the last add_to_global_rules call worked on.
LastInstantiation(l) == try_instantiate(l.rule, l.tag_captures)

\* C1: a call of add_to_global_rules whose rule instantiates under env
\* appends that instantiation exactly when no equal rule is in the worklist
\* (and otherwise leaves the worklist as it is); the worklist never holds
\* two equal rules.
C1_AddToGlobalRulesDedup ==
  /\ [](NoDuplicates(global_rules))
  /\ [][ (last'.op = "add_to_global_rules" /\ LastInstantiation(last').ok) =>
           LET r == LastInstantiation(last').rule
           IN /\ (global_rules' = Append(global_rules, r)) <=> ~contains(global_rules, r)
              /\ contains(global_rules, r) => global_rules' = global_rules ]_vars

\* A call whose instantiated rule was already in the worklist: it is there,
\* and not as the entry a push would have made.
C1_Witness ==
  /\ last.op = "add_to_global_rules"
  /\ LastInstantiation(last).ok
  /\ Len(global_rules) >= 2
  /\ contains(global_rules, LastInstantiation(last).rule)
  /\ ~RuleEq(global_rules[Len(global_rules)], LastInstantiation(last).rule)

\* C3: every operation leaves the worklist it found as a prefix of the
\* worklist it leaves.
C3_WorklistOnlyGrows ==
  [][IsPrefix(global_rules, global_rules')]_vars

\* The worklist built at startup has grown by a later add_to_global_rules.
C3_Witness ==
  /\ last.op = "add_to_global_rules"
  /\ LastInstantiation(last).ok
  /\ Len(global_rules) >= 2
  /\ RuleEq(global_rules[Len(global_rules)], LastInstantiation(last).rule)

\* C4: a map returned by get_next has the keys Parent and Global, and for a
\* rule without outgoing edges get_next returns exactly
\* {Parent: [], Global: []}.
C4_GetNextHasParentAndGlobal ==
  last.op = "get_next" =>
    /\ last.outcome = "returned" => {PARENT, GLOBAL} \subseteq DOMAIN last.next_rules
    /\ get_neighbors(last.rule_name) = <<>> =>
         /\ last.outcome = "returned"
         /\ last.next_rules = (PARENT :> <<>>) @@ (GLOBAL :> <<>>)

\* get_next returned for a rule that has outgoing edges, none of them
\* leading to a rule filed under Parent.
C4_Witness ==
  /\ last.op = "get_next"
  /\ last.outcome = "returned"
  /\ get_neighbors(last.rule_name) # <<>>
  /\ last.next_rules[PARENT] = <<>>

\* The relays a -> d -> b of the graph: d a dummy, b not.
Relays(a) ==
  {x \in SeqToSet(edges) \X SeqToSet(edges) :
     /\ x[1].from = a
     /\ x[1].to = x[2].from
     /\ is_dummy(rules_by_name[x[1].to])
     /\ ~is_dummy(rules_by_name[x[2].to])}

\* C5: when get_next(a, env) returns, for every relay a -> d -> b it holds
\* the instantiation of b under env in the list under the scope of d -> b.
C5_DummyTransparency ==
  (last.op = "get_next" /\ last.outcome = "returned") =>
    \A x \in Relays(last.rule_name) :
      LET b == try_instantiate(rules_by_name[x[2].to], last.tag_matches)
      IN /\ b.ok
         /\ x[2].scope \in DOMAIN last.next_rules
         /\ contains(last.next_rules[x[2].scope], b.rule)

\* get_next returned for a rule with a relay whose two edges declare
\* different scopes.
C5_Witness ==
  /\ last.op = "get_next"
  /\ last.outcome = "returned"
  /\ \E x \in Relays(last.rule_name) : x[1].scope # x[2].scope

\* C2 (as claimed): no operation removes a key of global_tags or changes
\* the value stored under a key that is already present.
C2_TagsNeverOverwritten ==
  [][ \A k \in DOMAIN global_tags :
        k \in DOMAIN global_tags' /\ global_tags'[k] = global_tags[k] ]_vars

\* C6 (as claimed): for a tag bound both in the input substitutions and in
\* global_tags, default_substitutions returns the input-substitution value.
C6_InputSubstitutionsWin ==
  last.op = "default_substitutions" =>
    \A k \in (DOMAIN input_substitutions) \cap (DOMAIN global_tags) :
      last.result[k] = input_substitutions[k]

\* The keys of an env that begin with the global tag prefix.
PrefixedKeys(env) == {k \in DOMAIN env : starts_with(k, global_tag_prefix)}

\* C7: add_global_tags(env) adds to global_tags the prefixed entries of env
\* and nothing else: the keys afterwards are the keys before plus the
\* prefixed keys of env, each prefixed key holds env's value, every other
\* key keeps its value, and no key of global_tags lacks the prefix.
C7_OnlyPrefixedKeysMerged ==
  /\ [](\A k \in DOMAIN global_tags : starts_with(k, global_tag_prefix))
  /\ [][ last'.op = "add_global_tags" =>
           LET env == last'.new_entries
           IN /\ DOMAIN global_tags' = (DOMAIN global_tags) \cup PrefixedKeys(env)
              /\ \A k \in PrefixedKeys(env) : global_tags'[k] = env[k]
              /\ \A k \in (DOMAIN global_tags) \ PrefixedKeys(env) :
                   global_tags'[k] = global_tags[k]
              /\ PrefixedKeys(env) = {} => global_tags' = global_tags ]_vars

\* A call whose env has a prefixed key and a key without the prefix: the
\* first is stored, the second is not.
C7_Witness ==
  /\ last.op = "add_global_tags"
  /\ T_gx \in DOMAIN last.new_entries
  /\ T_arg \in DOMAIN last.new_entries
  /\ T_gx \in DOMAIN global_tags
  /\ T_arg \notin DOMAIN global_tags

\* The seed rules the input substitutions instantiate, and those they do not.
SeedRules == {r \in LoadedRules : is_seed_rule(r)}
BoundSeedRules == {r \in SeedRules : try_instantiate(r, input_substitutions).ok}
UnboundSeedRules == SeedRules \ BoundSeedRules

C10_QueryCompiledOnce ==
  /\ [](\A q \in DOMAIN compilations : compilations[q] <= 1)
  /\ [][ /\ \A q \in DOMAIN rule_query_cache :
              q \in DOMAIN rule_query_cache' /\ rule_query_cache'[q] = rule_query_cache[q]
         /\ last'.op = "query" =>
              LET q == last'.query_str
              IN /\ rule_query_cache'[q] = last'.result
                 /\ q \in DOMAIN rule_query_cache =>
                      /\ last'.result = rule_query_cache[q]
                      /\ compilations' = compilations
                 /\ q \notin DOMAIN rule_query_cache =>
                      /\ q \notin DOMAIN compilations
                      /\ compilations'[q] = 1 ]_vars

\* The same query string has been asked for twice.
C10_Witness ==
  /\ last.op = "query"
  /\ nops >= 2
  /\ last.result.id = 1
  /\ Cardinality(DOMAIN rule_query_cache) = 1

\* The number of entries of list equal to rule r.
Count(list, r) == Cardinality({i \in 1..Len(list) : RuleEq(list[i], r)})

\* The rules b of the relays a -> d -> b whose edge d -> b is Global.
GlobalRelayTargets(a) ==
  {rules_by_name[x[2].to] : x \in {y \in Relays(a) : y[2].scope = GLOBAL}}

\* C11: after a rule with a relay a -> d --Global--> b has fired, once or
\* again with the same captures, and its Global rules went through
\* add_to_global_rules, the worklist holds b instantiated with the captures
\* exactly once.
C11_RelayedGlobalRuleOnce ==
  (last.op = "propagate" /\ last.outcome = "returned") =>
    \A b \in GlobalRelayTargets(last.rule_name) :
      /\ try_instantiate(b, last.captures).ok
      /\ Count(global_rules, try_instantiate(b, last.captures).rule) = 1

\* find_call has fired twice with the same captures, and a dummy relays it
\* to a Global rule.
C11_Witness ==
  /\ last.op = "propagate"
  /\ last.outcome = "returned"
  /\ last.repeated
  /\ last.rule_name = "find_call"
  /\ GlobalRelayTargets("find_call") # {}

\* C15: the edit delete_range(range) returns has a match with exactly that
\* range and no captures, an empty replacement string and the rule name
\* "Delete Range".
C15_DeleteRangeEdit ==
  last.op = "delete_range" =>
    /\ last.edit.p_match.range = last.replacement_range
    /\ DOMAIN last.edit.p_match.matches = {}
    /\ last.edit.replacement_string = ""
    /\ last.edit.matched_rule = "Delete Range"

\* delete_range was called with a range that is not empty.
C15_Witness ==
  /\ last.op = "delete_range"
  /\ last.replacement_range.start_byte < last.replacement_range.end_byte

\* The caller a and the dummies reached from it through dummies only.
RECURSIVE DummyClosure(_)
DummyClosure(S) ==
  LET T == S \cup {e.to : e \in {x \in SeqToSet(edges) :
                                   x.from \in S /\ is_dummy(rules_by_name[x.to])}}
  IN IF T = S THEN S ELSE DummyClosure(T)

\* C16: no list of a map returned by get_next holds a dummy; every entry is
\* the instantiation of a rule that is not a dummy, filed under the scope
\* declared on an edge that leads into that rule from the caller or from a
\* dummy reached from the caller through dummies.
C16_DummiesExpanded ==
  (last.op = "get_next" /\ last.outcome = "returned") =>
    \A s \in DOMAIN last.next_rules :
      \A i \in 1..Len(last.next_rules[s]) :
        LET r == last.next_rules[s][i]
        IN /\ ~is_dummy(r)
           /\ ~is_dummy(rules_by_name[r.name])
           /\ RuleEq(r, try_instantiate(rules_by_name[r.name], last.tag_matches).rule)
           /\ \E e \in SeqToSet(edges) :
                /\ e.from \in DummyClosure({last.rule_name})
                /\ e.to = r.name
                /\ e.scope = s

\* get_next returned a rule reached through a chain of two dummies, the
\* edge into the first dummy and the edge into the rule declaring different
\* scopes.
C16_Witness ==
  /\ last.op = "get_next"
  /\ last.outcome = "returned"
  /\ \E e1, e2, e3 \in SeqToSet(edges) :
       /\ e1.from = last.rule_name /\ e1.to = e2.from /\ e2.to = e3.from
       /\ is_dummy(rules_by_name[e1.to])
       /\ is_dummy(rules_by_name[e2.to])
       /\ ~is_dummy(rules_by_name[e3.to])
       /\ e1.scope # e3.scope
       /\ e2.scope # e3.scope
       /\ contains(last.next_rules[e3.scope],
                   try_instantiate(rules_by_name[e3.to], last.tag_matches).rule)

\* The rules of scope s in declared edge order, a dummy standing for its
\* own rules of scope s in its declared edge order.
RECURSIVE DeclaredOrder(_, _, _)
DeclaredOrder(a, s, env) ==
  LET nbrs == get_neighbors(a)
      RECURSIVE walk(_)
      walk(i) ==
        IF i > Len(nbrs) THEN <<>>
        ELSE (IF is_dummy(rules_by_name[nbrs[i].to])
                THEN DeclaredOrder(nbrs[i].to, s, env)
                ELSE IF nbrs[i].scope = s
                       THEN <<try_instantiate(rules_by_name[nbrs[i].to], env).rule>>
                       ELSE <<>>) \o walk(i + 1)
  IN walk(1)

\* C17: every list of a map returned by get_next is in declared edge order,
\* the rules reached through a dummy at the position of the edge into it.
C17_DeclaredEdgeOrder ==
  (last.op = "get_next" /\ last.outcome = "returned") =>
    \A s \in DOMAIN last.next_rules :
      last.next_rules[s] = DeclaredOrder(last.rule_name, s, last.tag_matches)

\* get_next returned a list of three rules, two of them reached through
\* dummies and standing before the rule of a direct edge.
C17_Witness ==
  /\ last.op = "get_next"
  /\ last.outcome = "returned"
  /\ Len(last.next_rules[PARENT]) >= 3
  /\ last.next_rules[PARENT][1].name # last.next_rules[PARENT][2].name
  /\ \E e \in SeqToSet(edges) :
       /\ e.from = last.rule_name
       /\ e.scope = PARENT
       /\ e.to = last.next_rules[PARENT][Len(last.next_rules[PARENT])].name

\* C18: a call of add_to_global_rules whose rule does not instantiate under
\* env returns without an error and leaves the worklist, global_tags and the
\* query cache as they were.
C18_UnboundRuleSkipped ==
  [][ (last'.op = "add_to_global_rules" /\ ~LastInstantiation(last').ok) =>
        /\ last'.outcome = "returned"
        /\ global_rules' = global_rules
        /\ global_tags' = global_tags
        /\ rule_query_cache' = rule_query_cache ]_vars

\* add_to_global_rules was called with a rule that has an unbound hole,
\* after the worklist was built.
C18_Witness ==
  /\ last.op = "add_to_global_rules"
  /\ ~LastInstantiation(last).ok
  /\ HolesOf(last.rule) \ DOMAIN last.tag_captures # {}
  /\ Len(global_rules) >= 1

\* C19: when the same rule is added twice in a row under two different
\* capture maps, the worklist ends with two entries of that name if the two
\* instantiations differ, and with a single entry, the second call adding
\* nothing, if they are equal.
C19_DedupOnRenderedRules ==
  [][ ( /\ last.op = "add_to_global_rules"
        /\ last'.op = "add_to_global_rules"
        /\ last'.rule = last.rule
        /\ last'.tag_captures # last.tag_captures
        /\ LastInstantiation(last).ok
        /\ LastInstantiation(last').ok ) =>
        LET r1 == LastInstantiation(last).rule
            r2 == LastInstantiation(last').rule
        IN /\ ~RuleEq(r1, r2) =>
                /\ Count(global_rules', r1) = 1
                /\ Count(global_rules', r2) = 1
                /\ r1.name = r2.name
           /\ RuleEq(r1, r2) =>
                /\ global_rules' = global_rules
                /\ Count(global_rules', r1) = 1 ]_vars

\* The worklist holds two entries of one name after two calls of
\* add_to_global_rules, the second for a loaded rule under captures that
\* bind a tag the rule does not use.
C19_Witness ==
  /\ last.op = "add_to_global_rules"
  /\ nops >= 2
  /\ last.rule \in LoadedRules
  /\ LastInstantiation(last).ok
  /\ DOMAIN last.tag_captures \ HolesOf(last.rule) # {}
  /\ \E i, j \in 1..Len(global_rules) :
       /\ i # j
       /\ global_rules[i].name = global_rules[j].name
       /\ global_rules[i].name = last.rule.name

\* C20 (as claimed): get_next terminates, whatever cycles the graph has.
C20_GetNextTerminates ==
  last.op = "get_next" => last.outcome # "overflow"

\* C13: apply leaves its loop only at the end of a complete pass in which
\* no workflow performed a cleanup, and the end of a pass in which some
\* workflow performed one is followed by another pass, which starts at the
\* first workflow.
C13_LoopEndsAfterCleanPass ==
  [][ /\ (apply.pc # "done" /\ apply'.pc = "done") =>
           /\ apply.pc = "for"
           /\ apply.i > apply.cleanup_workflows
           /\ apply.performed = {}
      /\ (apply.pc = "for" /\ apply.i > apply.cleanup_workflows /\ apply.performed # {}) =>
           apply'.pc = "loop"
      /\ (apply.pc = "loop") =>
           /\ apply'.pc = "for"
           /\ apply'.i = 1
           /\ apply'.pass = apply.pass + 1 ]_vars

\* apply has ended after more than one pass: an earlier pass performed a
\* cleanup, the last one none.
C13_Witness ==
  /\ apply.pc = "done"
  /\ apply.pass >= 2
  /\ apply.performed = {}
  /\ apply.cleanup_workflows >= 2
  /\ apply.piranha_output_summary # <<>>

\* C14: a second run of the driver, with the same rules and substitutions,
\* on the text a completed first run left, ends without having applied
\* any edit.
C14_SecondRunMakesNoEdit ==
  (driver.run = 2 /\ driver.pc \in {"scan", "pass", "done"}) =>
    /\ driver.edits = <<>>
    /\ driver.text = driver.input

\* The second run has ended, after a first run that applied several edits.
C14_Witness ==
  /\ driver.pc = "done"
  /\ driver.run = 2
  /\ driver.first_run_edits >= 2

\* The names of the rules the rule graph leads to from the rules named.
RECURSIVE ReachableFrom(_)
ReachableFrom(names) ==
  LET more == names \cup {e.to : e \in {x \in SeqToSet(edges) : x.from \in names}}
  IN IF more = names THEN names ELSE ReachableFrom(more)

EverySeedIsMatchOnly == \A r \in SeedRules : r.replace = <<>>

NoRewriteBehindSeeds ==
  \A n \in ReachableFrom({r.name : r \in SeedRules}) : rules_by_name[n].replace = <<>>

\* The matches of the seed rules in the text the run was given.
SeedMatches ==
  {<<r.name, i>> : <<r, i>> \in
     {x \in BoundSeedRules \X (1..Len(driver.input)) :
        \E k \in 1..Len(match_rule(x[1], driver.input, input_substitutions)) :
          match_rule(x[1], driver.input, input_substitutions)[k].index = x[2]}}

====
